---- MODULE Spec2Model ----
(***************************************************************************)
(* Grid search engine of mapAlgorithms.py: the six single-goal strategies  *)
(* (DFS, BFS, GBFS, A-star, IDS, IDA-star) and the multi-goal sequencer,   *)
(* run over the Environment of environment.py.  A state is <<col, row>>.   *)
(* One action per call prologue, per iteration of a strategy's while loop  *)
(* and per loop exit.                                                       *)
(***************************************************************************)
EXTENDS Integers, Sequences, FiniteSets, TLC

\* ---------------------------------------------------------------- bounds
Cols == 3
Rows == 3
MaxWalls == 1
MaxGoals == 2

\* the depth-limited passes of IDS are run for bounds 0 .. MaxDepth only
MaxDepth == Rows * Cols
MaxOwnGoals == 1

\* ---------------------------------------------------------------- values
\* float('inf'): larger than every finite cost of the bounded grids
Inf == 1000000

\* Python's None (absent state, absent action sequence, absent action)
None == <<"None">>

Cells == (0 .. Cols - 1) \X (0 .. Rows - 1)

Abs(x) == IF x < 0 THEN -x ELSE x

\* inf + x = inf
Plus(a, b) == IF a >= Inf \/ b >= Inf THEN Inf ELSE a + b

Reverse(seq) == [i \in 1 .. Len(seq) |-> seq[Len(seq) + 1 - i]]

\* dict[key] = value
Put(map, key, value) == (key :> value) @@ map

\* a plausible slip: the row steps of UP and DOWN exchanged
possible_moves_UpDownSwapped ==
    << <<0, 1, "UP">>, <<-1, 0, "LEFT">>, <<0, -1, "DOWN">>, <<1, 0, "RIGHT">> >>

\* ------------------------------------------------------- environment.py
possible_moves ==
    << <<0, -1, "UP">>, <<-1, 0, "LEFT">>, <<0, 1, "DOWN">>, <<1, 0, "RIGHT">> >>

is_within_bounds(state) ==
    /\ 0 <= state[1] /\ state[1] < Cols
    /\ 0 <= state[2] /\ state[2] < Rows

\* a plausible slip: the wall test dropped from the successor filter
is_wall_Never(env, state) == FALSE

is_wall(env, state) == state \in env.walls

is_goal(env, state) == state \in env.goal

\* the list of (next_state, action), in the order UP, LEFT, DOWN, RIGHT
get_valid_successors(env, current_state) ==
    LET moved == [i \in 1 .. 4 |->
                    << <<current_state[1] + possible_moves[i][1],
                         current_state[2] + possible_moves[i][2]>>,
                       possible_moves[i][3] >>]
        valid(m) == is_within_bounds(m[1]) /\ ~is_wall(env, m[1])
    IN  SelectSeq(moved, valid)

manhattan_distance(state1, state2) ==
    Abs(state1[1] - state2[1]) + Abs(state1[2] - state2[2])

\* a plausible slip: the distance to one goal taken for the distance to the
\* nearest
heuristic_OneGoal(env, state) ==
    IF env.goal = {} THEN Inf
    ELSE manhattan_distance(state, CHOOSE g \in env.goal : TRUE)

heuristic(env, state) ==
    IF env.goal = {} THEN Inf
    ELSE LET dists == {manhattan_distance(state, g) : g \in env.goal}
         IN  CHOOSE d \in dists : \A e \in dists : d <= e

\* ------------------------------------------------ path reconstruction
RECURSIVE ReconstructLoop(_, _, _, _)
ReconstructLoop(parent, current, start_state, path_actions) ==
    IF current = start_state THEN Reverse(path_actions)
    ELSE IF current \notin DOMAIN parent THEN None
    ELSE IF parent[current][1] = None THEN None
    ELSE ReconstructLoop(parent, parent[current][1], start_state,
                         Append(path_actions, parent[current][2]))

_reconstruct_path(parent, goal_state, start_state) ==
    IF goal_state = start_state THEN <<>>
    ELSE IF goal_state \notin DOMAIN parent THEN None
    ELSE ReconstructLoop(parent, goal_state, start_state, <<>>)

\* ------------------------------------------------------ frame of a call
\* the local variables of a running strategy, before anything is assigned
NoLocals ==
    [pc |-> "call", start |-> None, parent |-> <<>>, frontier |-> <<>>, frontier_pq |-> {},
     frontier_set |-> {}, explored |-> {}, gcosts |-> <<>>, insertions |-> 0,
     nodes |-> 0, max_depth |-> 0, threshold |-> 0, min_next_threshold |-> 0,
     total_nodes |-> 0, result |-> None]

Last(seq) == seq[Len(seq)]
Front(seq) == SubSeq(seq, 1, Len(seq) - 1)

Return(s, path_actions, count, goal_state) ==
    [s EXCEPT !.pc = "done", !.result = <<path_actions, count, goal_state>>]

\* ------------------------------------------------- depth_first_search
DFSCall(env) ==
    LET start == env.start
        s == [NoLocals EXCEPT !.start = start,
                              !.parent = Put(<<>>, start, <<None, None>>),
                              !.frontier = <<start>>]
    IN  IF is_goal(env, start)
        THEN Return(s, <<>>, Cardinality(DOMAIN s.parent), start)
        ELSE [s EXCEPT !.pc = "loop"]

RECURSIVE DFSPush(_, _, _, _)
DFSPush(s, current, succs, i) ==
    IF i > Len(succs) THEN s
    ELSE LET next == succs[i][1]
             action == succs[i][2]
         IN  IF next \notin s.explored
             THEN DFSPush([s EXCEPT !.frontier = Append(@, next),
                                    !.parent = Put(@, next, <<current, action>>)],
                          current, succs, i + 1)
             ELSE DFSPush(s, current, succs, i + 1)

\* a plausible slip: the successors pushed in the order they are generated
DFSStep_PushesInOrder(env, s) ==
    LET current == Last(s.frontier)
        popped == [s EXCEPT !.frontier = Front(@)]
        marked == [popped EXCEPT !.explored = @ \cup {current}]
    IN  IF current \in s.explored THEN popped
        ELSE IF is_goal(env, current)
        THEN Return(marked, _reconstruct_path(s.parent, current, s.start),
                    Cardinality(DOMAIN s.parent), current)
        ELSE DFSPush(marked, current, get_valid_successors(env, current), 1)

\* one iteration of the while loop (frontier not empty)
DFSStep(env, s) ==
    LET current == Last(s.frontier)
        popped == [s EXCEPT !.frontier = Front(@)]
        marked == [popped EXCEPT !.explored = @ \cup {current}]
    IN  IF current \in s.explored THEN popped
        ELSE IF is_goal(env, current)
        THEN Return(marked, _reconstruct_path(s.parent, current, s.start),
                    Cardinality(DOMAIN s.parent), current)
        ELSE DFSPush(marked, current,
                     Reverse(get_valid_successors(env, current)), 1)

DFSExhausted(s) == Return(s, None, Cardinality(DOMAIN s.parent), None)

\* ----------------------------------------------- breadth_first_search
BFSCall(env) ==
    LET start == env.start
        s == [NoLocals EXCEPT !.start = start,
                              !.parent = Put(<<>>, start, <<None, None>>),
                              !.frontier = <<start>>]
    IN  IF is_goal(env, start)
        THEN Return(s, <<>>, Cardinality(DOMAIN s.parent), start)
        ELSE [s EXCEPT !.pc = "loop"]

RECURSIVE BFSPush(_, _, _, _)
BFSPush(s, current, succs, i) ==
    IF i > Len(succs) THEN s
    ELSE LET next == succs[i][1]
             action == succs[i][2]
         IN  IF next \notin s.explored
             THEN BFSPush([s EXCEPT !.explored = @ \cup {next},
                                    !.frontier = Append(@, next),
                                    !.parent = Put(@, next, <<current, action>>)],
                          current, succs, i + 1)
             ELSE BFSPush(s, current, succs, i + 1)

\* a plausible slip: pop() in place of popleft()
popleft_AsPop(frontier) == <<Last(frontier), Front(frontier)>>

\* deque.popleft(): the element removed and the deque that is left
popleft(frontier) == <<Head(frontier), Tail(frontier)>>

BFSStep(env, s) ==
    LET current == popleft(s.frontier)[1]
        popped == [s EXCEPT !.frontier = popleft(s.frontier)[2]]
    IN  IF is_goal(env, current)
        THEN Return(popped, _reconstruct_path(s.parent, current, s.start),
                    Cardinality(DOMAIN s.parent), current)
        ELSE BFSPush(popped, current, get_valid_successors(env, current), 1)

BFSExhausted(s) == Return(s, None, Cardinality(DOMAIN s.parent), None)

\* ------------------------------------------------------ priority frontier
\* the order of two states as Python tuples (col, row)
StateBefore(state1, state2) ==
    state1[1] < state2[1] \/ (state1[1] = state2[1] /\ state1[2] <= state2[2])

\* heapq orders the entries (cost, insertions, state) as tuples: by cost, then
\* by insertion number, then by state
PQBefore(a, b) ==
    \/ a[1] < b[1]
    \/ a[1] = b[1] /\ a[2] < b[2]
    \/ a[1] = b[1] /\ a[2] = b[2] /\ StateBefore(a[3], b[3])

\* a plausible slip: the heap ordered the other way round (largest cost first)
heappop_Largest(pq) == CHOOSE e \in pq : \A o \in pq : PQBefore(o, e)

\* the entry heapq.heappop returns
heappop(pq) == CHOOSE e \in pq : \A o \in pq : PQBefore(e, o)

\* dict.get(key, float('inf'))
GetOrInf(map, key) == IF key \in DOMAIN map THEN map[key] ELSE Inf

\* ------------------------------------------- greedy_best_first_search
GBFSCall(env) ==
    LET start == env.start
        s == [NoLocals EXCEPT !.start = start,
                              !.parent = Put(<<>>, start, <<None, None>>),
                              !.frontier_pq = {<<heuristic(env, start), 0, start>>},
                              !.frontier_set = {start},
                              !.insertions = 1]
    IN  IF is_goal(env, start)
        THEN Return(s, <<>>, Cardinality(DOMAIN s.parent), start)
        ELSE [s EXCEPT !.pc = "loop"]

RECURSIVE GBFSPush_SameNumber(_, _, _, _, _)
GBFSPush_SameNumber(env, s, current, succs, i) ==
    IF i > Len(succs) THEN s
    ELSE LET next == succs[i][1]
             action == succs[i][2]
         IN  IF next \notin s.explored /\ next \notin s.frontier_set
             THEN GBFSPush_SameNumber(env,
                           [s EXCEPT !.frontier_pq = @ \cup
                                        {<<heuristic(env, next), s.insertions, next>>},
                                     !.parent = Put(@, next, <<current, action>>),
                                     !.frontier_set = @ \cup {next}],
                           current, succs, i + 1)
             ELSE GBFSPush_SameNumber(env, s, current, succs, i + 1)

RECURSIVE GBFSPush(_, _, _, _, _)
GBFSPush(env, s, current, succs, i) ==
    IF i > Len(succs) THEN s
    ELSE LET next == succs[i][1]
             action == succs[i][2]
         IN  IF next \notin s.explored /\ next \notin s.frontier_set
             THEN GBFSPush(env,
                           [s EXCEPT !.insertions = @ + 1,
                                     !.frontier_pq = @ \cup
                                        {<<heuristic(env, next), s.insertions + 1, next>>},
                                     !.parent = Put(@, next, <<current, action>>),
                                     !.frontier_set = @ \cup {next}],
                           current, succs, i + 1)
             ELSE GBFSPush(env, s, current, succs, i + 1)

GBFSStep(env, s) ==
    LET entry == heappop(s.frontier_pq)
        current == entry[3]
        popped == [s EXCEPT !.frontier_pq = @ \ {entry}]
        removed == [popped EXCEPT !.frontier_set = @ \ {current}]
        marked == [removed EXCEPT !.explored = @ \cup {current}]
    IN  IF current \notin s.frontier_set THEN popped
        ELSE IF current \in s.explored THEN removed
        ELSE IF is_goal(env, current)
        THEN Return(marked, _reconstruct_path(s.parent, current, s.start),
                    Cardinality(DOMAIN s.parent), current)
        ELSE GBFSPush(env, marked, current, get_valid_successors(env, current), 1)

GBFSExhausted(s) == Return(s, None, Cardinality(DOMAIN s.parent), None)

\* ------------------------------------------------------ a_star_search
\* s.start is actual_start
AStarCall(env, override_start, override_goal) ==
    LET actual_start == IF override_start # None THEN override_start ELSE env.start
        s == [NoLocals EXCEPT !.start = actual_start,
                              !.parent = Put(<<>>, actual_start, <<None, None>>),
                              !.gcosts = Put(<<>>, actual_start, 0),
                              !.frontier_pq =
                                  {<<Plus(0, heuristic(env, actual_start)), 0, actual_start>>},
                              !.insertions = 1,
                              !.frontier_set = {actual_start},
                              !.nodes = 1]
    IN  IF is_goal(env, actual_start)
        THEN Return(s, <<>>, s.nodes, actual_start)
        ELSE [s EXCEPT !.pc = "loop"]

AStarImproves(temp_gcost, gcosts, next) == temp_gcost < GetOrInf(gcosts, next)

RECURSIVE AStarRelax(_, _, _, _, _, _)
AStarRelax(env, s, current, current_gcost, succs, i) ==
    IF i > Len(succs) THEN s
    ELSE LET next == succs[i][1]
             action == succs[i][2]
             temp_gcost == current_gcost + 1
         IN  IF AStarImproves(temp_gcost, s.gcosts, next)
             THEN AStarRelax(env,
                    [s EXCEPT !.nodes = IF next \notin DOMAIN s.gcosts THEN @ + 1 ELSE @,
                              !.gcosts = Put(@, next, temp_gcost),
                              !.parent = Put(@, next, <<current, action>>),
                              !.frontier_pq = @ \cup
                                  {<<Plus(temp_gcost, heuristic(env, next)),
                                     s.insertions, next>>},
                              !.insertions = @ + 1,
                              !.frontier_set = @ \cup {next}],
                    current, current_gcost, succs, i + 1)
             ELSE AStarRelax(env, s, current, current_gcost, succs, i + 1)

AStarStep(env, s) ==
    LET entry == heappop(s.frontier_pq)
        current == entry[3]
        popped == [s EXCEPT !.frontier_pq = @ \ {entry}]
        removed == [popped EXCEPT !.frontier_set = @ \ {current}]
    IN  IF current \notin s.frontier_set THEN popped
        ELSE IF is_goal(env, current)
        THEN Return(removed, _reconstruct_path(s.parent, current, s.start),
                    s.nodes, current)
        ELSE AStarRelax(env, removed, current, s.gcosts[current],
                        get_valid_successors(env, current), 1)

AStarExhausted(s) == Return(s, None, Cardinality(DOMAIN s.parent), None)

\* ------------------------------------------ iterative_deepening_search
\* depth_limited_search(environment, start, depth): the pass is called with
\* depth = s.max_depth; its return value is left in s.result at pc "dls_ret"
DLSReturn(s, path_actions, count, goal_state) ==
    [s EXCEPT !.pc = "dls_ret", !.result = <<path_actions, count, goal_state>>]

depth_limited_search(env, s, start) ==
    LET b == [s EXCEPT !.parent = Put(<<>>, start, <<None, None>>),
                       !.frontier = << <<start, 0>> >>,
                       !.explored = {}]
    IN  IF is_goal(env, start)
        THEN DLSReturn(b, <<>>, Cardinality(b.explored), start)
        ELSE [b EXCEPT !.pc = "loop"]

RECURSIVE DLSPush(_, _, _, _, _)
DLSPush(s, current, current_depth, succs, i) ==
    IF i > Len(succs) THEN s
    ELSE LET next_node == succs[i][1]
             action == succs[i][2]
         IN  IF next_node \notin s.explored
             THEN DLSPush([s EXCEPT !.frontier = Append(@, <<next_node, current_depth + 1>>),
                                    !.parent = IF next_node \notin DOMAIN @
                                               THEN Put(@, next_node, <<current, action>>)
                                               ELSE @],
                          current, current_depth, succs, i + 1)
             ELSE DLSPush(s, current, current_depth, succs, i + 1)

\* a plausible slip: the depth test off by one, so that a pass expands the
\* states at its depth bound too
DLSStep_OneDeeper(env, s) ==
    LET current == Last(s.frontier)[1]
        current_depth == Last(s.frontier)[2]
        popped == [s EXCEPT !.frontier = Front(@)]
        marked == [popped EXCEPT !.explored = @ \cup {current}]
    IN  IF current \in s.explored THEN popped
        ELSE IF is_goal(env, current)
        THEN DLSReturn(marked, _reconstruct_path(s.parent, current, s.start),
                       Cardinality(marked.explored), current)
        ELSE IF current_depth <= s.max_depth
        THEN DLSPush(marked, current, current_depth,
                     Reverse(get_valid_successors(env, current)), 1)
        ELSE marked

DLSStep(env, s) ==
    LET current == Last(s.frontier)[1]
        current_depth == Last(s.frontier)[2]
        popped == [s EXCEPT !.frontier = Front(@)]
        marked == [popped EXCEPT !.explored = @ \cup {current}]
    IN  IF current \in s.explored THEN popped
        ELSE IF is_goal(env, current)
        THEN DLSReturn(marked, _reconstruct_path(s.parent, current, s.start),
                       Cardinality(marked.explored), current)
        ELSE IF current_depth < s.max_depth
        THEN DLSPush(marked, current, current_depth,
                     Reverse(get_valid_successors(env, current)), 1)
        ELSE marked

DLSExhausted(s) == DLSReturn(s, None, Cardinality(s.explored), None)

IDSCall(env) ==
    depth_limited_search(env, [NoLocals EXCEPT !.start = env.start, !.max_depth = 0],
                         env.start)

\* a plausible slip: the next pass run under the same depth bound
IDSNext_SameDepth(env, s) ==
    IF s.result[3] # None
    THEN Return(s, s.result[1], s.result[2], s.result[3])
    ELSE depth_limited_search(env, [s EXCEPT !.result = None], s.start)

\* the body of "while True" after a pass has returned
IDSNext(env, s) ==
    IF s.result[3] # None
    THEN Return(s, s.result[1], s.result[2], s.result[3])
    ELSE depth_limited_search(env, [s EXCEPT !.max_depth = @ + 1, !.result = None],
                              s.start)

\* a plausible slip: the largest pruned f-cost kept as the next threshold
Min2_AsMax(a, b) ==
    IF a >= Inf THEN b ELSE IF b >= Inf THEN a ELSE IF a >= b THEN a ELSE b

\* ----------------------------------------------------- ida_star_search
Min2(a, b) == IF a <= b THEN a ELSE b

\* "viz and hasattr(viz.__self__, 'grid_frame')": only a bound method has
\* __self__, so the test raises AttributeError for a hook that is a plain
\* function; reset_viz(), when it is called, redraws the grid and nothing else
HookHasSelf(hook) == hook # "function"

\* the head of "while True": a fresh pass under s.threshold
IDAPass(s, hook) ==
    [s EXCEPT !.pc = IF hook = "none" \/ HookHasSelf(hook)
                     THEN "loop" ELSE "raised",
              !.parent = Put(<<>>, s.start, <<None, None>>),
              !.gcosts = Put(<<>>, s.start, 0),
              !.frontier = << <<s.start, 0>> >>,
              !.min_next_threshold = Inf,
              !.nodes = 1]

IDACall(env, hook) ==
    IDAPass([NoLocals EXCEPT !.start = env.start,
                             !.threshold = heuristic(env, env.start),
                             !.total_nodes = 0], hook)

RECURSIVE IDAPush(_, _, _, _, _, _)
IDAPush(env, s, current, gcost, succs, i) ==
    IF i > Len(succs) THEN s
    ELSE LET next == succs[i][1]
             action == succs[i][2]
             temp_gcost == gcost + 1
             fcost == Plus(temp_gcost, heuristic(env, next))
         IN  IF fcost > s.threshold
             THEN IDAPush(env,
                          [s EXCEPT !.min_next_threshold = Min2(@, fcost)],
                          current, gcost, succs, i + 1)
             ELSE IF temp_gcost < GetOrInf(s.gcosts, next)
             THEN IDAPush(env,
                          [s EXCEPT !.nodes = IF next \notin DOMAIN s.gcosts
                                              THEN @ + 1 ELSE @,
                                    !.gcosts = Put(@, next, temp_gcost),
                                    !.parent = Put(@, next, <<current, action>>),
                                    !.frontier = Append(@, <<next, temp_gcost>>)],
                          current, gcost, succs, i + 1)
             ELSE IDAPush(env, s, current, gcost, succs, i + 1)

IDASuccessCount(s) == s.nodes

IDAStep(env, s) ==
    LET current == Last(s.frontier)[1]
        gcost == Last(s.frontier)[2]
        popped == [s EXCEPT !.frontier = Front(@)]
    IN  IF is_goal(env, current)
        THEN Return(popped, _reconstruct_path(s.parent, current, s.start),
                    IDASuccessCount(s), current)
        ELSE IDAPush(env, popped, current, gcost,
                     Reverse(get_valid_successors(env, current)), 1)

\* a plausible slip: the threshold raised by one move from pass to pass
IDAPassEnd_StepsByOne(s, hook) ==
    LET t == [s EXCEPT !.total_nodes = @ + s.nodes]
    IN  IF t.min_next_threshold = Inf
        THEN Return(t, None, t.total_nodes, None)
        ELSE IDAPass([t EXCEPT !.threshold = @ + 1], hook)

\* a plausible slip: the failure exit hands back an empty action sequence
IDAPassEnd_EmptyPath(s, hook) ==
    LET t == [s EXCEPT !.total_nodes = @ + s.nodes]
    IN  IF t.min_next_threshold = Inf
        THEN Return(t, <<>>, t.total_nodes, None)
        ELSE IDAPass([t EXCEPT !.threshold = t.min_next_threshold], hook)

\* the inner loop has emptied the stack
IDAPassEnd(s, hook) ==
    LET t == [s EXCEPT !.total_nodes = @ + s.nodes]
    IN  IF t.min_next_threshold = Inf
        THEN Return(t, None, t.total_nodes, None)
        ELSE IDAPass([t EXCEPT !.threshold = t.min_next_threshold], hook)

\* --------------------------------------------------- multigoal_a_star
\* the local variables of multigoal_a_star, before anything is assigned
NoMas ==
    [pc |-> "idle", original_start |-> None, original_goals |-> {},
     current |-> None, unvisited_goals |-> {}, actions |-> <<>>,
     total_nodes |-> 0, last_visited |-> None, result |-> None]

MasReturn(m, path_actions, count, goal_state) ==
    [m EXCEPT !.pc = "done", !.result = <<path_actions, count, goal_state>>]

\* from the call up to the head of "while unvisited_goals"
MASCall(env) ==
    LET saved == [NoMas EXCEPT !.original_start = env.start,
                               !.original_goals = env.goal]
        begun == [saved EXCEPT !.current = env.start,
                               !.unvisited_goals = env.goal]
        at_goal == [begun EXCEPT !.last_visited = begun.current,
                                 !.unvisited_goals = @ \ {begun.current}]
    IN  IF saved.original_goals = {}
        THEN MasReturn(saved, <<>>, 1, None)
        ELSE IF begun.current \in begun.unvisited_goals
        THEN IF at_goal.unvisited_goals = {}
             THEN MasReturn(at_goal, <<>>, 1, at_goal.current)
             ELSE [at_goal EXCEPT !.pc = "loop"]
        ELSE [begun EXCEPT !.pc = "loop"]

\* a plausible slip: environment.goal left bound to the working set
RestoredGoal_Unvisited(m) == m.unvisited_goals

\* what a return path of multigoal_a_star assigns to environment.start and
\* environment.goal before returning
RestoredStart(m) == m.original_start
RestoredGoal(m) == m.original_goals

\* a plausible slip: the actions of a leg replace those gathered so far
MASAfterLeg_Overwrites(m, r) ==
    LET counted == [m EXCEPT !.total_nodes = @ + r[2]]
        extended == [counted EXCEPT !.actions = r[1]]
    IN  IF r[1] = None
        THEN MasReturn(counted, None, counted.total_nodes, None)
        ELSE IF r[3] \notin extended.unvisited_goals
        THEN MasReturn(extended, None, extended.total_nodes, None)
        ELSE [extended EXCEPT !.pc = "loop",
                              !.last_visited = r[3],
                              !.unvisited_goals = @ \ {r[3]},
                              !.current = r[3]]

\* a plausible slip: a failed leg hands back the actions gathered so far
MASAfterLeg_Partial(m, r) ==
    LET counted == [m EXCEPT !.total_nodes = @ + r[2]]
        extended == [counted EXCEPT !.actions = @ \o r[1]]
    IN  IF r[1] = None
        THEN MasReturn(counted, counted.actions, counted.total_nodes,
                       counted.last_visited)
        ELSE IF r[3] \notin extended.unvisited_goals
        THEN MasReturn(extended, None, extended.total_nodes, None)
        ELSE [extended EXCEPT !.pc = "loop",
                              !.last_visited = r[3],
                              !.unvisited_goals = @ \ {r[3]},
                              !.current = r[3]]

\* the statements after a_star_search has returned r = (next_actions,
\* next_nodes, next_goal)
MASAfterLeg(m, r) ==
    LET counted == [m EXCEPT !.total_nodes = @ + r[2]]
        extended == [counted EXCEPT !.actions = @ \o r[1]]
    IN  IF r[1] = None
        THEN MasReturn(counted, None, counted.total_nodes, None)
        ELSE IF r[3] \notin extended.unvisited_goals
        THEN MasReturn(extended, None, extended.total_nodes, None)
        ELSE [extended EXCEPT !.pc = "loop",
                              !.last_visited = r[3],
                              !.unvisited_goals = @ \ {r[3]},
                              !.current = r[3]]

\* the statements after the while loop
MASAfterLoop(m) ==
    IF m.unvisited_goals = {}
    THEN MasReturn(m, m.actions, m.total_nodes, m.last_visited)
    ELSE MasReturn(m, None, m.total_nodes, None)

\* ---------------------------------------------------------------- state
VARIABLES
    start,      \* environment.start
    goal,       \* environment.goal
    walls,      \* environment.walls
    alg,        \* the strategy that is called
    viz,        \* the observation hook that is passed, by kind
    local,      \* the frame of the running single-goal strategy
    mas,        \* the frame of multigoal_a_star
    pre,        \* environment.start and environment.goal before the call
    legs,       \* history: the calls of a_star_search made by
                \* multigoal_a_star so far, each with what it returned
    override    \* the override_start and override_goal arguments of
                \* a_star_search

vars == <<start, goal, walls, alg, viz, local, mas, pre, legs, override>>

Env == [start |-> start, goal |-> goal, walls |-> walls]

Algorithms == {"DFS", "BFS", "GBFS", "AS", "IDS", "IDA", "MAS"}

UpTo(S, n) == {x \in SUBSET S : Cardinality(x) <= n}

\* override_start=None, override_goal=None: the defaults, which every caller
\* in the repository leaves in place
NoOverride == [start |-> None, goal |-> None]

\* viz=None, a plain function (def or lambda), or a bound method of an object
HookKinds == {"none", "function", "method"}

\* a parsed map: up to MaxWalls wall cells, the start on a free cell, up to
\* MaxGoals goals anywhere in the grid (a goal may lie on a wall cell).  Every
\* strategy is called without a hook and with a plain function; the bound
\* method is passed to ida_star_search, the one strategy that looks at
\* anything of the hook but its call.
Init ==
    /\ walls \in UpTo(Cells, MaxWalls)
    /\ start \in Cells \ walls
    /\ goal \in UpTo(Cells, MaxGoals)
    /\ alg \in Algorithms
    /\ viz \in (IF alg = "IDA" THEN HookKinds ELSE HookKinds \ {"method"})
    /\ local = NoLocals
    /\ mas = NoMas
    /\ pre = [start |-> start, goal |-> goal]
    /\ legs = <<>>
    /\ override = NoOverride

EnvFixed == UNCHANGED <<start, goal, walls, alg, viz, pre, legs, override>>

\* ---------------------------------------------------------------- actions
DFS_Call ==
    /\ alg = "DFS" /\ local.pc = "call"
    /\ local' = DFSCall(Env)
    /\ UNCHANGED mas /\ EnvFixed

DFS_Iterate ==
    /\ alg = "DFS" /\ local.pc = "loop" /\ local.frontier # <<>>
    /\ local' = DFSStep(Env, local)
    /\ UNCHANGED mas /\ EnvFixed

DFS_Exhausted ==
    /\ alg = "DFS" /\ local.pc = "loop" /\ local.frontier = <<>>
    /\ local' = DFSExhausted(local)
    /\ UNCHANGED mas /\ EnvFixed

BFS_Call ==
    /\ alg = "BFS" /\ local.pc = "call"
    /\ local' = BFSCall(Env)
    /\ UNCHANGED mas /\ EnvFixed

BFS_Iterate ==
    /\ alg = "BFS" /\ local.pc = "loop" /\ local.frontier # <<>>
    /\ local' = BFSStep(Env, local)
    /\ UNCHANGED mas /\ EnvFixed

BFS_Exhausted ==
    /\ alg = "BFS" /\ local.pc = "loop" /\ local.frontier = <<>>
    /\ local' = BFSExhausted(local)
    /\ UNCHANGED mas /\ EnvFixed

GBFS_Call ==
    /\ alg = "GBFS" /\ local.pc = "call"
    /\ local' = GBFSCall(Env)
    /\ UNCHANGED mas /\ EnvFixed

GBFS_Iterate ==
    /\ alg = "GBFS" /\ local.pc = "loop" /\ local.frontier_pq # {}
    /\ local' = GBFSStep(Env, local)
    /\ UNCHANGED mas /\ EnvFixed

GBFS_Exhausted ==
    /\ alg = "GBFS" /\ local.pc = "loop" /\ local.frontier_pq = {}
    /\ local' = GBFSExhausted(local)
    /\ UNCHANGED mas /\ EnvFixed

\* a_star_search runs on its own or as a leg of multigoal_a_star
AStarRunning == alg = "AS" \/ (alg = "MAS" /\ mas.pc = "leg")

AStar_Call ==
    /\ alg = "AS" /\ local.pc = "call"
    /\ local' = AStarCall(Env, override.start, override.goal)
    /\ UNCHANGED mas /\ EnvFixed

AStar_Iterate ==
    /\ AStarRunning /\ local.pc = "loop" /\ local.frontier_pq # {}
    /\ local' = AStarStep(Env, local)
    /\ UNCHANGED mas /\ EnvFixed

AStar_Exhausted ==
    /\ AStarRunning /\ local.pc = "loop" /\ local.frontier_pq = {}
    /\ local' = AStarExhausted(local)
    /\ UNCHANGED mas /\ EnvFixed

IDS_Call ==
    /\ alg = "IDS" /\ local.pc = "call"
    /\ local' = IDSCall(Env)
    /\ UNCHANGED mas /\ EnvFixed

DLS_Iterate ==
    /\ alg = "IDS" /\ local.pc = "loop" /\ local.frontier # <<>>
    /\ local' = DLSStep(Env, local)
    /\ UNCHANGED mas /\ EnvFixed

DLS_Exhausted ==
    /\ alg = "IDS" /\ local.pc = "loop" /\ local.frontier = <<>>
    /\ local' = DLSExhausted(local)
    /\ UNCHANGED mas /\ EnvFixed

IDS_Next ==
    /\ alg = "IDS" /\ local.pc = "dls_ret"
    /\ local.result[3] = None => local.max_depth < MaxDepth
    /\ local' = IDSNext(Env, local)
    /\ UNCHANGED mas /\ EnvFixed

IDA_Call ==
    /\ alg = "IDA" /\ local.pc = "call"
    /\ local' = IDACall(Env, viz)
    /\ UNCHANGED mas /\ EnvFixed

IDA_Iterate ==
    /\ alg = "IDA" /\ local.pc = "loop" /\ local.frontier # <<>>
    /\ local' = IDAStep(Env, local)
    /\ UNCHANGED mas /\ EnvFixed

IDA_PassEnd ==
    /\ alg = "IDA" /\ local.pc = "loop" /\ local.frontier = <<>>
    /\ local' = IDAPassEnd(local, viz)
    /\ UNCHANGED mas /\ EnvFixed

MAS_Call ==
    /\ alg = "MAS" /\ mas.pc = "idle"
    /\ mas' = MASCall(Env)
    /\ UNCHANGED local /\ EnvFixed

\* environment.start = current; environment.goal = unvisited_goals;
\* a_star_search(environment, viz) is entered
MAS_Leg ==
    /\ alg = "MAS" /\ mas.pc = "loop" /\ mas.unvisited_goals # {}
    /\ start' = mas.current
    /\ goal' = mas.unvisited_goals
    /\ local' = AStarCall([start |-> mas.current, goal |-> mas.unvisited_goals,
                           walls |-> walls], None, None)
    /\ mas' = [mas EXCEPT !.pc = "leg"]
    /\ UNCHANGED <<walls, alg, viz, pre, legs, override>>

\* a_star_search has returned.  environment.goal is the very set object
\* unvisited_goals, so removing the reached goal shows in environment.goal
MAS_LegEnd ==
    /\ alg = "MAS" /\ mas.pc = "leg" /\ local.pc = "done"
    /\ mas' = MASAfterLeg(mas, local.result)
    /\ IF mas'.pc = "done"
       THEN start' = RestoredStart(mas) /\ goal' = RestoredGoal(mas)
       ELSE start' = start /\ goal' = mas'.unvisited_goals
    /\ legs' = Append(legs, [start |-> start, goal |-> goal,
                             result |-> local.result])
    /\ UNCHANGED <<local, walls, alg, viz, pre, override>>

MAS_Finish ==
    /\ alg = "MAS" /\ mas.pc = "loop" /\ mas.unvisited_goals = {}
    /\ start' = RestoredStart(mas)
    /\ goal' = RestoredGoal(mas)
    /\ mas' = MASAfterLoop(mas)
    /\ UNCHANGED <<local, walls, alg, viz, pre, legs, override>>

\* the hook raises inside an iteration of the leg's a_star_search: neither
\* a_star_search nor multigoal_a_star catches, so both frames are left
\* where they are and the exception reaches the caller
MAS_HookRaises ==
    /\ alg = "MAS" /\ viz # "none" /\ mas.pc = "leg"
    /\ local.pc = "loop" /\ local.frontier_pq # {}
    /\ heappop(local.frontier_pq)[3] \in local.frontier_set
    /\ local' = [local EXCEPT !.pc = "raised"]
    /\ mas' = [mas EXCEPT !.pc = "raised"]
    /\ UNCHANGED <<start, goal, walls, alg, viz, pre, legs, override>>

Next ==
    \/ DFS_Call \/ DFS_Iterate \/ DFS_Exhausted
    \/ BFS_Call \/ BFS_Iterate \/ BFS_Exhausted
    \/ GBFS_Call \/ GBFS_Iterate \/ GBFS_Exhausted
    \/ AStar_Call \/ AStar_Iterate \/ AStar_Exhausted
    \/ IDS_Call \/ DLS_Iterate \/ DLS_Exhausted \/ IDS_Next
    \/ IDA_Call \/ IDA_Iterate \/ IDA_PassEnd
    \/ MAS_Call \/ MAS_Leg \/ MAS_LegEnd \/ MAS_Finish \/ MAS_HookRaises

Spec == Init /\ [][Next]_vars

\* --------------------------------- a_star_search called with overrides
\* a_star_search(environment, None, override_start, override_goal) on a
\* parsed map with up to MaxOwnGoals goals of its own: the override start is
\* a free cell and the override goal set holds one cell
InitOverride ==
    /\ walls \in UpTo(Cells, MaxWalls)
    /\ start \in Cells \ walls
    /\ goal \in UpTo(Cells, MaxOwnGoals)
    /\ alg = "AS"
    /\ viz = "none"
    /\ local = NoLocals
    /\ mas = NoMas
    /\ pre = [start |-> start, goal |-> goal]
    /\ legs = <<>>
    /\ override \in [start : Cells \ walls, goal : {{c} : c \in Cells}]

NextOverride == AStar_Call \/ AStar_Iterate \/ AStar_Exhausted

SpecOverride == InitOverride /\ [][NextOverride]_vars

\* ----------------------------------- the two iterative strategies, run on
\* iterative_deepening_search(environment) and ida_star_search(environment)
\* without a hook.  The interpreter runs the one thread of the call without
\* pause: whenever a statement is there to be executed, it is executed
InitDeepening ==
    /\ walls \in UpTo(Cells, MaxWalls)
    /\ start \in Cells \ walls
    /\ goal \in UpTo(Cells, MaxGoals)
    /\ alg \in {"IDS", "IDA"}
    /\ viz = "none"
    /\ local = NoLocals
    /\ mas = NoMas
    /\ pre = [start |-> start, goal |-> goal]
    /\ legs = <<>>
    /\ override = NoOverride

NextDeepening ==
    \/ IDS_Call \/ DLS_Iterate \/ DLS_Exhausted \/ IDS_Next
    \/ IDA_Call \/ IDA_Iterate \/ IDA_PassEnd

SpecDeepening ==
    InitDeepening /\ [][NextDeepening]_vars /\ WF_vars(NextDeepening)

\* ------------------------------------------------ runs as pure functions
RECURSIVE AStarRun(_, _)
AStarRun(env, s) ==
    IF s.pc = "done" THEN s
    ELSE IF s.frontier_pq = {} THEN AStarExhausted(s)
    ELSE AStarRun(env, AStarStep(env, s))

\* the value a_star_search(environment) returns
a_star_search(env) == AStarRun(env, AStarCall(env, None, None)).result

RECURSIVE DFSRun(_, _)
DFSRun(env, s) ==
    IF s.pc = "done" THEN s
    ELSE IF s.frontier = <<>> THEN DFSExhausted(s)
    ELSE DFSRun(env, DFSStep(env, s))

RECURSIVE BFSRun(_, _)
BFSRun(env, s) ==
    IF s.pc = "done" THEN s
    ELSE IF s.frontier = <<>> THEN BFSExhausted(s)
    ELSE BFSRun(env, BFSStep(env, s))

RECURSIVE GBFSRun(_, _)
GBFSRun(env, s) ==
    IF s.pc = "done" THEN s
    ELSE IF s.frontier_pq = {} THEN GBFSExhausted(s)
    ELSE GBFSRun(env, GBFSStep(env, s))

\* the passes up to the depth bound MaxDepth; the frame is handed back as it
\* is when that bound is reached without a goal
RECURSIVE IDSRun(_, _)
IDSRun(env, s) ==
    IF s.pc = "done" THEN s
    ELSE IF s.pc = "dls_ret"
    THEN IF s.result[3] = None /\ s.max_depth >= MaxDepth THEN s
         ELSE IDSRun(env, IDSNext(env, s))
    ELSE IF s.frontier = <<>> THEN IDSRun(env, DLSExhausted(s))
    ELSE IDSRun(env, DLSStep(env, s))

RECURSIVE IDARun(_, _, _)
IDARun(env, s, hook) ==
    IF s.pc \in {"done", "raised"} THEN s
    ELSE IF s.frontier = <<>> THEN IDARun(env, IDAPassEnd(s, hook), hook)
    ELSE IDARun(env, IDAStep(env, s), hook)

RECURSIVE MASRun(_, _)
MASRun(m, w) ==
    IF m.pc = "done" THEN m
    ELSE IF m.unvisited_goals = {} THEN MASAfterLoop(m)
    ELSE MASRun(MASAfterLeg(m, a_star_search([start |-> m.current,
                                              goal |-> m.unvisited_goals,
                                              walls |-> w])), w)

\* the frame in which strategy a ends when it is called on env with no hook
RunWithoutHook(a, env) ==
    CASE a = "DFS" -> DFSRun(env, DFSCall(env))
      [] a = "BFS" -> BFSRun(env, BFSCall(env))
      [] a = "GBFS" -> GBFSRun(env, GBFSCall(env))
      [] a = "AS" -> AStarRun(env, AStarCall(env, None, None))
      [] a = "IDS" -> IDSRun(env, IDSCall(env))
      [] a = "IDA" -> IDARun(env, IDACall(env, "none"), "none")
      [] a = "MAS" -> MASRun(MASCall(env), env.walls)

\* ------------------------------------------------ the grid as a graph
\* the cells one unit move away from c
Adjacent(env, c) == {d \in Cells \ env.walls : manhattan_distance(c, d) = 1}

Grow(env, seen) == seen \cup UNION {Adjacent(env, c) : c \in seen}

RECURSIVE Closure(_, _)
Closure(env, seen) ==
    IF Grow(env, seen) = seen THEN seen ELSE Closure(env, Grow(env, seen))

\* the cells reachable from the start, the start included
ReachableCells(env) == Closure(env, {env.start})

GoalReachable(env) == ReachableCells(env) \cap env.goal # {}

RECURSIVE MovesFrom(_, _, _)
MovesFrom(env, seen, k) ==
    IF seen \cap env.goal # {} THEN k ELSE MovesFrom(env, Grow(env, seen), k + 1)

\* the minimum number of unit moves from the start to a goal (some goal is
\* reachable)
MinMoves(env) == MovesFrom(env, {env.start}, 0)

\* the move an action stands for
Move(state, action) ==
    CASE action = "UP" -> <<state[1], state[2] - 1>>
      [] action = "DOWN" -> <<state[1], state[2] + 1>>
      [] action = "LEFT" -> <<state[1] - 1, state[2]>>
      [] action = "RIGHT" -> <<state[1] + 1, state[2]>>

RECURSIVE Replay(_, _)
Replay(state, path_actions) ==
    IF path_actions = <<>> THEN state
    ELSE Replay(Move(state, Head(path_actions)), Tail(path_actions))

SingleGoal == {"DFS", "BFS", "GBFS", "AS", "IDS", "IDA"}

MasReturned == alg = "MAS" /\ mas.pc = "done"

\* ================================================================ claims

\* C1: when the start state is a goal, each of the six strategies returns
\* (empty action sequence, node-count 1, start state) and has given no other
\* state a parent link (nothing was expanded).
C1_StartIsGoalReturn ==
    (alg \in SingleGoal /\ start \in goal /\ local.pc = "done") =>
        /\ local.result = <<<<>>, 1, start>>
        /\ DOMAIN local.parent = {start}

\* C2: when multigoal_a_star has returned, with success or with failure,
\* environment.start and environment.goal have the values they had before
\* the call.
C2_MasRestoresEnvironment ==
    MasReturned => (start = pre.start /\ goal = pre.goal)

\* two legs were run: the second one with environment.start and
\* environment.goal overwritten by other values than the original ones
C2_Witness ==
    /\ MasReturned /\ mas.result[1] # None
    /\ Cardinality(pre.goal) = 2 /\ pre.start \notin pre.goal
    /\ mas.current # pre.start

\* C3: when the hook raises inside a leg of multigoal_a_star, the original
\* start and goal set are back in the environment when control has left
\* multigoal_a_star.
C3_RestoredOnError ==
    (alg = "MAS" /\ mas.pc = "raised") => (start = pre.start /\ goal = pre.goal)

\* C4: when some goal is reachable, the action sequence breadth_first_search
\* returns has the minimum number of unit moves from the start to a goal.
C4_BFSShortest ==
    (alg = "BFS" /\ local.pc = "done" /\ GoalReachable(Env)) =>
        /\ local.result[1] # None
        /\ Len(local.result[1]) = MinMoves(Env)

\* a wall forces the shortest path to be longer than the Manhattan distance
C4_Witness ==
    /\ alg = "BFS" /\ local.pc = "done" /\ local.result[1] # None
    /\ Len(local.result[1]) > heuristic(Env, start)

\* C5: when some goal is reachable, the action sequence a_star_search returns
\* (first goal popped from the priority frontier) has the minimum number of
\* unit moves from the start to a goal.
C5_AStarShortest ==
    (alg = "AS" /\ local.pc = "done" /\ GoalReachable(Env)) =>
        /\ local.result[1] # None
        /\ Len(local.result[1]) = MinMoves(Env)

C5_Witness ==
    /\ alg = "AS" /\ local.pc = "done" /\ local.result[1] # None
    /\ Len(local.result[1]) > heuristic(Env, start)
    /\ Cardinality(goal) = 2

\* C6: when some goal is reachable, ida_star_search and a_star_search return
\* action sequences of the same length on the same environment.
C6_IDAStarAsLongAsAStar ==
    (alg = "IDA" /\ local.pc = "done" /\ GoalReachable(Env)) =>
        /\ local.result[1] # None
        /\ a_star_search(Env)[1] # None
        /\ Len(local.result[1]) = Len(a_star_search(Env)[1])

\* the goal was found in a later pass than the first, off the straight line
C6_Witness ==
    /\ alg = "IDA" /\ local.pc = "done" /\ local.result[1] # None
    /\ local.total_nodes > 0
    /\ Len(local.result[1]) >= 4

\* C7: whenever one of the six strategies returns an action sequence and a
\* reached goal, replaying the sequence from the start (UP: row - 1, DOWN:
\* row + 1, LEFT: column - 1, RIGHT: column + 1) ends on the reached goal,
\* which is a member of the goal set.
C7_ReplayReachesGoal ==
    (alg \in SingleGoal /\ local.pc = "done"
        /\ local.result[1] # None /\ local.result[3] # None) =>
        /\ Replay(start, local.result[1]) = local.result[3]
        /\ local.result[3] \in goal

C7_Witness ==
    /\ alg = "DFS" /\ local.pc = "done" /\ local.result[1] # None
    /\ Len(local.result[1]) >= 5
    /\ Replay(start, local.result[1]) \in goal

\* C8: when no goal is reachable, each of the six strategies terminates and
\* returns (absent, a node-count >= 0, absent): what it returns is that, and
\* it has returned before a depth-limited pass is started with a bound above
\* the number of reachable cells (no state is cut off at such a bound, so
\* the pass before it already explored all there is).
C8_UnreachableReturnsAbsent ==
    /\ (alg \in SingleGoal /\ local.pc = "done" /\ ~GoalReachable(Env)) =>
          /\ local.result[1] = None
          /\ local.result[2] >= 0
          /\ local.result[3] = None
    /\ (alg = "IDS" /\ local.pc = "loop" /\ local.explored = {}
            /\ ~GoalReachable(Env)) =>
          local.max_depth <= Cardinality(ReachableCells(Env))

\* C9: when no goal is reachable, the node-count that depth_first_search,
\* breadth_first_search, greedy_best_first_search and a_star_search return
\* is the number of cells reachable from the start, the start included.
C9_CountsReachableCells ==
    (alg \in {"DFS", "BFS", "GBFS", "AS"} /\ local.pc = "done"
        /\ ~GoalReachable(Env)) =>
        local.result[2] = Cardinality(ReachableCells(Env))

\* a goal that is walled off, in a grid where a wall takes a cell away
C9_Witness ==
    /\ alg = "AS" /\ local.pc = "done" /\ ~GoalReachable(Env)
    /\ goal # {} /\ walls # {}
    /\ local.result[2] = Cardinality(Cells) - 1

\* C10: the node-count ida_star_search returns, on success and on failure,
\* is the sum over every pass that was run, the last one included, of the
\* number of states given a best-g entry in that pass.  (total_nodes holds
\* the completed passes; on success the last pass is not yet added to it.)
C10_IDACountAccumulates ==
    (alg = "IDA" /\ local.pc = "done") =>
        local.result[2] =
            IF local.result[3] # None
            THEN local.total_nodes + Cardinality(DOMAIN local.gcosts)
            ELSE local.total_nodes

\* the environment a leg of multigoal_a_star was run on
LegEnv(l) == [start |-> l.start, goal |-> l.goal, walls |-> walls]

\* the node-counts the legs returned, added up
RECURSIVE LegCounts(_)
LegCounts(ls) ==
    IF ls = <<>> THEN 0 ELSE ls[1].result[2] + LegCounts(Tail(ls))

\* C11: when a leg of multigoal_a_star is run from a position from which no
\* remaining goal can be reached, that leg returns no path and is the last
\* one: the run has returned (None, the node-counts of all legs added up,
\* None), however many goals the earlier legs have visited.  (Each leg is
\* looked at when it has just returned, as the last entry of legs.)
C11_MasFailsWhenLegFails ==
    /\ (alg = "MAS" /\ mas.pc \in {"loop", "done"} /\ legs # <<>>) =>
            (~GoalReachable(LegEnv(Last(legs))) => Last(legs).result[1] = None)
    /\ \A i \in 1..Len(legs) :
            legs[i].result[1] = None =>
                /\ i = Len(legs)
                /\ MasReturned
                /\ mas.result = <<None, LegCounts(legs), None>>

\* a run that fails in its second leg, after visiting a goal
C11_Witness ==
    /\ MasReturned /\ Len(legs) = 2
    /\ legs[1].result[1] # None /\ legs[1].result[1] # <<>>
    /\ ~GoalReachable(LegEnv(legs[2]))
    /\ mas.result[1] = None

\* the environment as it was when the strategy was called
PreEnv == [start |-> pre.start, goal |-> pre.goal, walls |-> walls]

AllGoalsReachable(env) == env.goal \subseteq ReachableCells(env)

\* the action sequences the legs returned, one after the other
RECURSIVE LegActions(_)
LegActions(ls) ==
    IF ls = <<>> THEN <<>> ELSE ls[1].result[1] \o LegActions(Tail(ls))

\* the states a replay of path_actions from state passes through
RECURSIVE Visited(_, _)
Visited(state, path_actions) ==
    IF path_actions = <<>> THEN {state}
    ELSE {state} \cup Visited(Move(state, path_actions[1]), Tail(path_actions))

\* the goal the run reached last: that of the last leg, or the start when
\* the start was the only goal
LastGoalReached == IF legs = <<>> THEN pre.start ELSE Last(legs).result[3]

\* what C12 says of the returned path and goal
C12_PathAndGoal ==
    /\ mas.result[1] # None
    /\ \A i \in 1..Len(legs) : legs[i].result[1] # None
    /\ mas.result[1] = LegActions(legs)
    /\ mas.result[3] = LastGoalReached
    /\ pre.goal \subseteq Visited(pre.start, mas.result[1])
    /\ Replay(pre.start, mas.result[1]) = mas.result[3]

\* C12 as stated: when the goal set is not empty and every goal can be reached
\* from the start, multigoal_a_star returns the action sequences of its legs
\* one after the other, the node-counts of its legs added up, and the goal
\* reached last; a replay of the returned sequence from the original start
\* passes through every original goal and ends on the returned goal.
C12_MasSuccess ==
    (MasReturned /\ pre.goal # {} /\ AllGoalsReachable(PreEnv)) =>
        /\ C12_PathAndGoal
        /\ mas.result[2] = LegCounts(legs)

\* C12, amended: as stated of a call that has returned, but the node-count
\* is 1 when the start is the only goal, in which case no leg is run.
C12_MasSuccessCountOneAtStart ==
    (MasReturned /\ pre.goal # {} /\ AllGoalsReachable(PreEnv)) =>
        /\ C12_PathAndGoal
        /\ mas.result[2] = IF legs = <<>> THEN 1 ELSE LegCounts(legs)

\* a return after two legs, neither of them empty
C12_Witness ==
    /\ MasReturned /\ AllGoalsReachable(PreEnv)
    /\ Len(legs) = 2 /\ legs[1].result[1] # <<>> /\ legs[2].result[1] # <<>>
    /\ mas.result[1] # None /\ Len(mas.result[1]) >= 3

\* C13: a leg of multigoal_a_star that returns a path has reached one of the
\* goals that remained unvisited, along a path that ends on it and is as
\* short as the shortest path from the leg's start to any remaining goal: no
\* remaining goal is nearer than the one reached.  (Each leg is looked at
\* when it has just returned, as the last entry of legs; the goals are a
\* set, which has no order for the choice to depend on.)
C13_LegReachesNearestGoal ==
    (alg = "MAS" /\ mas.pc \in {"loop", "done"} /\ legs # <<>>
                 /\ Last(legs).result[1] # None) =>
        LET l == Last(legs)
        IN  /\ l.result[3] \in l.goal
            /\ Replay(l.start, l.result[1]) = l.result[3]
            /\ Len(l.result[1]) = MinMoves(LegEnv(l))

\* a leg of two moves or more that had two goals to choose from, one of
\* them farther away than the one it reached
C13_Witness ==
    /\ alg = "MAS" /\ mas.pc = "loop" /\ Len(legs) = 1
    /\ Cardinality(legs[1].goal) = 2
    /\ Len(legs[1].result[1]) >= 2
    /\ \E g \in legs[1].goal :
           MinMoves([LegEnv(legs[1]) EXCEPT !.goal = {g}]) > Len(legs[1].result[1])

\* C14: a strategy that is passed a hook which only records its arguments
\* ends as it ends without a hook: the search does not raise, and what it
\* returns (action sequence, node-count, reached goal) is what the call
\* without a hook returns.  (A hook that itself raises is another matter and
\* is left out: that is the "raised" of multigoal_a_star.)
C14_HookChangesNothing ==
    viz # "none" =>
        /\ alg \in SingleGoal => local.pc # "raised"
        /\ (alg \in SingleGoal /\ local.pc = "done") =>
               LET plain == RunWithoutHook(alg, PreEnv)
               IN  plain.pc = "done" /\ plain.result = local.result
        /\ MasReturned => mas.result = RunWithoutHook("MAS", PreEnv).result

\* the moves, in the order UP, LEFT, DOWN, RIGHT, that lead from state to a
\* cell of the grid that is neither a wall nor in seen
OpenMoves(env, state, seen) ==
    LET Open(a) == /\ Move(state, a) \in Cells \ env.walls
                   /\ Move(state, a) \notin seen
    IN  SelectSeq(<<"UP", "LEFT", "DOWN", "RIGHT">>, Open)

\* C15: when depth_first_search has expanded a state (popped it, found it
\* neither explored nor a goal, and pushed its successors), the state on top
\* of the stack, which is the one popped next, is the first of that state's
\* valid and not yet explored successors in the order UP, LEFT, DOWN, RIGHT,
\* if it has one.
C15_DFSPopsFirstSuccessorNext ==
    [][(/\ alg = "DFS" /\ local.pc = "loop" /\ local.frontier # <<>>
        /\ Last(local.frontier) \notin local.explored
        /\ ~is_goal(Env, Last(local.frontier))) =>
          LET current == Last(local.frontier)
              open == OpenMoves(Env, current, local.explored \cup {current})
          IN  open # <<>> =>
                  /\ local'.pc = "loop"
                  /\ Last(local'.frontier) = Move(current, open[1])]_vars

\* an expansion has just pushed two successors or more, and the one on top
\* was not reached by UP: the moves before it in the order were closed
C15_Witness ==
    /\ alg = "DFS" /\ local.pc = "loop" /\ Len(local.frontier) >= 2
    /\ LET top == Last(local.frontier)
           below == local.frontier[Len(local.frontier) - 1]
       IN  /\ top \notin local.explored
           /\ local.parent[top][1] \in local.explored
           /\ local.parent[top][2] # "UP"
           /\ local.parent[below][1] = local.parent[top][1]

\* the environment the override arguments describe
OverrideEnv == [start |-> override.start, goal |-> override.goal, walls |-> walls]

\* C16: a_star_search called with an override start and an override goal set
\* searches from the override start, tests for the goal against the override
\* set, so that it returns a path exactly when a state of the override set
\* can be reached and that path ends on such a state, and leaves
\* environment.start and environment.goal as they were.
C16_OverridesUsed ==
    (alg = "AS" /\ override.start # None /\ local.pc = "done") =>
        /\ local.start = override.start
        /\ (local.result[1] # None) <=> GoalReachable(OverrideEnv)
        /\ local.result[1] # None =>
               /\ local.result[3] \in override.goal
               /\ Replay(override.start, local.result[1]) = local.result[3]
        /\ start = pre.start /\ goal = pre.goal

\* C17: no state, the start included, is inserted into the queue of
\* breadth_first_search more than once.  Every insertion writes the state's
\* parent entry (the start's before the loop, a successor's when it is
\* appended), so the states inserted so far are the keys of the parent map:
\* an iteration appends no state that is a key already, and no state twice.
C17_BFSEnqueuesOnce ==
    [][(alg = "BFS" /\ local.pc = "loop" /\ local'.pc = "loop") =>
          LET kept == Len(local.frontier) - 1
              appended == SubSeq(local'.frontier, kept + 1, Len(local'.frontier))
          IN  \A i \in 1..Len(appended) :
                  /\ appended[i] \notin DOMAIN local.parent
                  /\ \A j \in 1..Len(appended) : appended[j] = appended[i] => j = i]_vars

\* a step inside one run of a loop over a parent map: an iteration or the
\* exit of DFS, BFS, GBFS, A-star, a depth-limited pass or an IDA-star pass
\* (the steps that begin a call or a pass create the map anew)
WithinPass == local.pc = "loop" /\ ~(alg = "IDA" /\ local.frontier = <<>>)

\* C18: in every strategy, at every point of a run or pass, the parent map
\* holds (None, None) for the start state, and no step of a run or pass
\* removes a key from the parent map.
C18_StartParentKept ==
    [][/\ DOMAIN local'.parent # {} =>
              /\ local'.start \in DOMAIN local'.parent
              /\ local'.parent[local'.start] = <<None, None>>
       /\ WithinPass => DOMAIN local.parent \subseteq DOMAIN local'.parent]_vars

\* C19: whenever DFS, BFS, GBFS, A-star or IDS (whose parent map is the one
\* of its last depth-limited pass) has returned, the node-count it returned
\* is the number of states that hold an entry in the parent map.
C19_CountIsParentEntries ==
    (alg \in {"DFS", "BFS", "GBFS", "AS", "IDS"} /\ local.pc = "done") =>
        local.result[2] = Cardinality(DOMAIN local.parent)

\* the length of a shortest path from cell a to cell b
Distance(env, a, b) == MinMoves([env EXCEPT !.start = a, !.goal = {b}])

\* C20: when a_star_search expands a state (pops a live entry for it that is
\* not a goal and relaxes its successors), the g recorded for the state is
\* the length of a shortest path to it from the start of the search, and the
\* expansion inserts no state that has been expanded, this one included.
\* (The states expanded so far are those with a g entry and no live entry in
\* the frontier.)
C20_AStarNeverReopens ==
    [][(/\ AStarRunning /\ local.pc = "loop" /\ local.frontier_pq # {}
        /\ heappop(local.frontier_pq)[3] \in local.frontier_set
        /\ ~is_goal(Env, heappop(local.frontier_pq)[3])) =>
          LET current == heappop(local.frontier_pq)[3]
              expanded == (DOMAIN local.gcosts \ local.frontier_set) \cup {current}
              pushed == local'.frontier_pq \ local.frontier_pq
          IN  /\ local.gcosts[current] = Distance(Env, local.start, current)
              /\ \A e \in pushed : e[3] \notin expanded]_vars

\* an expansion has met, among the successors, states expanded before: four
\* states are expanded and the state expanded last has two successors or more
\* among them
C20_Witness ==
    /\ alg = "AS" /\ local.pc = "loop"
    /\ Cardinality(DOMAIN local.gcosts \ local.frontier_set) >= 4
    /\ \E c \in DOMAIN local.gcosts \ local.frontier_set :
           Cardinality(Adjacent(Env, c) \ local.frontier_set) >= 2

\* C21: iterative_deepening_search called on an environment in which a goal
\* can be reached from the start eventually returns, and what it returns is
\* an action sequence that leads from the start to a goal.
C21_IDSFindsReachableGoal ==
    (alg = "IDS" /\ local.pc = "call" /\ GoalReachable(Env)) ~>
        (/\ local.pc = "done"
         /\ local.result[1] # None
         /\ Replay(start, local.result[1]) = local.result[3]
         /\ local.result[3] \in goal)

\* a return from the fourth pass or a later one, in which a state was pushed
\* again after it had been given its parent (more stack entries were popped
\* as explored, or are left, than there are states)
C21_Witness ==
    /\ alg = "IDS" /\ local.pc = "done" /\ local.max_depth >= 3
    /\ local.result[1] # None
    /\ \E i \in 1..Len(local.frontier) : local.frontier[i][1] \in local.explored

\* C22: ida_star_search called on an environment in which no goal can be
\* reached from the start (the goal set may be empty) eventually returns
\* (None, node-count, None), from a pass that has ended with the stack empty
\* and no successor pruned.
C22_IDAStarGivesUp ==
    (alg = "IDA" /\ local.pc = "call" /\ ~GoalReachable(Env)) ~>
        (/\ local.pc = "done"
         /\ local.result = <<None, local.total_nodes, None>>
         /\ local.frontier = <<>>
         /\ local.min_next_threshold = Inf)

\* a failure returned from the third pass or a later one: the threshold was
\* raised twice, to the f-costs pruned, before a pass pruned nothing
C22_Witness ==
    /\ alg = "IDA" /\ local.pc = "done" /\ local.result[1] = None
    /\ goal # {} /\ ~GoalReachable(Env)
    /\ local.threshold >= heuristic(Env, start) + 4
    /\ local.threshold < Inf

\* the least of a non-empty set of numbers
Least(S) == CHOOSE x \in S : \A y \in S : x <= y

\* C23: the first pass of ida_star_search runs under the threshold
\* heuristic(start).  In a pass, the expansion of a state at cost g pushes no
\* successor whose f-cost g + 1 + h is above the threshold, and the least
\* f-cost pruned so far in the pass (none at its start) is kept.  A pass that
\* is followed by another hands it that least pruned f-cost as threshold,
\* and this is above its own threshold.
C23_IDAThresholds ==
    [][alg = "IDA" =>
        /\ (local.pc = "call" /\ local'.pc = "loop") =>
               /\ local'.threshold = heuristic(Env, start)
               /\ local'.min_next_threshold = Inf
        /\ (local.pc = "loop" /\ local.frontier # <<>> /\ local'.pc = "loop") =>
               LET current == Last(local.frontier)[1]
                   gcost == Last(local.frontier)[2]
                   pruned == {f \in {Plus(gcost + 1, heuristic(Env, n)) :
                                         n \in Adjacent(Env, current)} :
                                 f > local.threshold}
                   kept == Len(local.frontier) - 1
               IN  /\ local'.threshold = local.threshold
                   /\ local'.min_next_threshold =
                          Least(pruned \cup {local.min_next_threshold})
                   /\ \A i \in kept + 1 .. Len(local'.frontier) :
                          Plus(local'.frontier[i][2],
                               heuristic(Env, local'.frontier[i][1])) <= local.threshold
        /\ (local.pc = "loop" /\ local.frontier = <<>> /\ local'.pc = "loop") =>
               /\ local'.threshold = local.min_next_threshold
               /\ local'.threshold > local.threshold
               /\ local'.min_next_threshold = Inf]_vars

\* a second pass or a later one in which a successor has been pruned
C23_Witness ==
    /\ alg = "IDA" /\ local.pc = "loop"
    /\ local.threshold > heuristic(Env, start)
    /\ local.min_next_threshold < Inf
    /\ Len(local.frontier) >= 2

\* C24: when a goal can be reached, the action sequence
\* iterative_deepening_search returns is as short as the one
\* breadth_first_search returns on the same environment, which is of
\* minimum length.
C24_IDSAsShortAsBFS ==
    (alg = "IDS" /\ local.pc = "done" /\ GoalReachable(PreEnv)) =>
        /\ local.result[1] # None
        /\ Len(local.result[1]) = Len(RunWithoutHook("BFS", PreEnv).result[1])
        /\ Len(local.result[1]) = MinMoves(PreEnv)


\* ---------------------------------------------------------------- C25
\* the last insertion number given out: greedy_best_first_search advances the
\* counter before a push, a_star_search after it
LastInsertion == IF alg = "GBFS" THEN local.insertions ELSE local.insertions - 1

\* the priority the search computes for an entry of its queue
Priority(state) ==
    IF alg = "GBFS" THEN heuristic(Env, state)
    ELSE Plus(local'.gcosts[state], heuristic(Env, state))

\* C25: in greedy_best_first_search and a_star_search every iteration pops
\* exactly one entry, and it is the one with the least priority (h for GBFS,
\* f = g + h for A*) and, among those of equal priority, the one inserted
\* earliest; every other entry of equal priority carries a strictly larger
\* insertion number, so the state never decides a tie.  The entries pushed in
\* an iteration carry pairwise different insertion numbers, each larger than
\* every number given out before, and the priority the search computed.
C25_TiesGoToEarlierInsertion ==
    [][((alg = "GBFS" \/ AStarRunning) /\ local.pc = "loop"
            /\ local.frontier_pq # {} /\ local'.pc \in {"loop", "done"}) =>
        LET popped == local.frontier_pq \ local'.frontier_pq
            pushed == local'.frontier_pq \ local.frontier_pq
        IN  /\ Cardinality(popped) = 1
            /\ \A e \in popped : \A o \in local.frontier_pq \ {e} :
                   e[1] < o[1] \/ (e[1] = o[1] /\ e[2] < o[2])
            /\ \A e \in pushed :
                   /\ e[2] > LastInsertion
                   /\ e[1] = Priority(e[3])
                   /\ \A o \in pushed \ {e} : o[2] # e[2]
            /\ \A e \in local'.frontier_pq : e[2] <= LastInsertion']_vars

\* a queue holding three entries of one priority, inserted at different times,
\* one of which was pushed after an entry of a different state had been popped
C25_Witness ==
    /\ alg \in {"GBFS", "AS"} /\ local.pc = "loop" /\ local.explored # {}
    /\ \E e, o, u \in local.frontier_pq :
           /\ e[1] = o[1] /\ o[1] = u[1]
           /\ e[2] < o[2] /\ o[2] < u[2]
           /\ StateBefore(u[3], e[3])


\* ---------------------------------------------------------------- C26
\* path_actions is an action sequence that leads from the start to target
\* over open cells of the grid only
ValidPathTo(path_actions, target) ==
    /\ path_actions # None
    /\ Visited(start, path_actions) \subseteq Cells \ walls
    /\ Replay(start, path_actions) = target

\* C26: in iterative_deepening_search, whenever a pass is about to expand a
\* state (the top stack entry, not yet explored), the parent links lead from
\* that state back to the start along a valid path that is no longer than the
\* depth of the entry, which is within the depth bound of the pass; and the
\* action sequence a pass returns for the goal is a valid path to that goal
\* whose length does not exceed the depth bound of the pass.
C26_IDSPathWithinDepth ==
    alg = "IDS" =>
        /\ (local.pc = "loop" /\ local.frontier # <<>>
                /\ Last(local.frontier)[1] \notin local.explored) =>
            LET current == Last(local.frontier)[1]
                current_depth == Last(local.frontier)[2]
                path_actions == _reconstruct_path(local.parent, current, local.start)
            IN  /\ ValidPathTo(path_actions, current)
                /\ Len(path_actions) <= current_depth
                /\ current_depth <= local.max_depth
        /\ (local.pc \in {"dls_ret", "done"} /\ local.result[3] # None) =>
            /\ ValidPathTo(local.result[1], local.result[3])
            /\ local.result[3] \in goal
            /\ Len(local.result[1]) <= local.max_depth

\* a pass about to expand a state through its most recent push, which lies
\* deeper than an earlier push of that state still on the stack, while the
\* parent links of the state give a path shorter than the depth of the entry
C26_Witness ==
    /\ alg = "IDS" /\ local.pc = "loop" /\ local.frontier # <<>>
    /\ Last(local.frontier)[1] \notin local.explored
    /\ goal # {} /\ GoalReachable(Env)
    /\ \E i \in 1..(Len(local.frontier) - 1) :
           /\ local.frontier[i][1] = Last(local.frontier)[1]
           /\ local.frontier[i][2] < Last(local.frontier)[2]
    /\ Len(_reconstruct_path(local.parent, Last(local.frontier)[1], local.start))
           < Last(local.frontier)[2]

====
